---- MODULE Spec2Model ----
(***************************************************************************)
(* A model of the contract-graph resolution layer of the v4 client:        *)
(*   - PrizePool (src/src/PrizePool.ts): a handle on one prize pool whose  *)
(*     token and ticket contracts are fetched lazily and kept on the       *)
(*     object, used by concurrent asynchronous accessor calls;             *)
(*   - initializeLinkedPrizePool (src/src/LinkedPrizePool.ts): the         *)
(*     cross-network assembly that issues one batched read per network,    *)
(*     joins on their settlement and builds the prize pools.               *)
(* JavaScript runs one job at a time: every action below is the code that  *)
(* runs between two await points.                                          *)
(***************************************************************************)
EXTENDS Integers, Sequences, FiniteSets, TLC

\* ---------------------------------------------------------------- bounds
\* Number of accessor calls made on one PrizePool during a behaviour.
MaxCalls == 2

\* ------------------------------------------------------------ descriptors
\* ContractType values used by the two files.
PrizePoolType == "YieldSourcePrizePool"
TokenType == "Token"
TicketType == "Ticket"

\* A contract metadata record: chainId, address, type and the "children"
\* extension (a sequence of {chainId, address}; empty when there is none).
ContractMetadata(chainId, address, type, children) ==
    [chainId |-> chainId, address |-> address, type |-> type, children |-> children]

ChildRef(chainId, address) == [chainId |-> chainId, address |-> address]

\* `undefined` for the optional metadata and contract fields of a PrizePool.
NoMetadata == ContractMetadata(0, "undefined", "undefined", <<>>)
NoContract == [id |-> 0, address |-> "undefined"]

\* No LinkedPrizePool has been returned (yet).
NoLinkedPrizePool == [ providers |-> {}, contractList |-> <<>>, prizePools |-> <<>> ]

\* createContractMetadata(chainId, address, type, abi)
createContractMetadata(chainId, address, type) ==
    ContractMetadata(chainId, address, type, <<>>)

\* new Contract(address, abi, signerOrProvider): a new object, told apart
\* from every other contract object by its identity (ids are counted per
\* child; token and ticket objects differ by their address).
NewContract(id, address) == [id |-> id, address |-> address]

\* ------------------------------------------------------------- PrizePool
\* The constructor: whatever metadata list it is given, the ticket and token
\* fields start undefined.
PrizePool(prizePoolMetadata, signerOrProvider, contractMetadataList) ==
    [ prizePoolMetadata |-> prizePoolMetadata,
      chainId |-> prizePoolMetadata.chainId,
      address |-> prizePoolMetadata.address,
      signerOrProvider |-> signerOrProvider,
      contractMetadataList |-> contractMetadataList,
      ticketMetadata |-> NoMetadata,
      tokenMetadata |-> NoMetadata,
      ticketContract |-> NoContract,
      tokenContract |-> NoContract ]

\* ----------------------------------------------------------------- state
VARIABLES
    prizePool,      \* the PrizePool object under concurrent use
    calls,          \* the accessor calls made on it, each with its position
    nextId,         \* per child: identity of the next object `new Contract` makes
    childReads,     \* getToken()/getTicket() reads issued to the prize pool contract
    failedReads,    \* how many of those reads were rejected
    overlapped,     \* a call was started while another one was still running
    contractList,   \* the contract list handed to initializeLinkedPrizePool
    providers,      \* chain ids that have a provider in `providers`
    pc,             \* position of initializeLinkedPrizePool
    batches,        \* per chain id: the batched request and how it settled
    linkedPrizePool, \* the LinkedPrizePool returned (contractList, prizePools)
    builtPools      \* the PrizePool[] returned by initializePrizePools

poolVars == <<prizePool, calls, nextId, childReads, failedReads, overlapped>>
linkedVars == <<contractList, providers, pc, batches, linkedPrizePool, builtPools>>
vars == <<prizePool, calls, nextId, childReads, failedReads, overlapped, contractList, providers, pc, batches, linkedPrizePool, builtPools>>

\* ------------------------------------------------- PrizePool: accessors
\* The public asynchronous methods of PrizePool.
Accessors ==
    { "getUserPrizePoolBalances", "getUserTicketBalance", "getUserTicketTwabAt",
      "getUserTokenBalance", "getUserDepositAllowance", "getUserTicketDelegate",
      "getTokenData", "getTicketData", "getTicketTotalSupply",
      "getTicketTwabTotalSupplyAt", "getTicketContract", "getTokenContract" }

\* Accessors that start with `await validateAddress(errorPrefix, usersAddress)`.
ValidatesAddress(accessor) ==
    accessor \in { "getUserPrizePoolBalances", "getUserTicketBalance",
                   "getUserTicketTwabAt", "getUserTokenBalance",
                   "getUserDepositAllowance", "getUserTicketDelegate" }

\* Accessors that call `await validateSignerOrProviderNetwork(...)`.
\* getUserTicketDelegate does not.
ValidatesNetwork(accessor) ==
    accessor \in { "getUserPrizePoolBalances", "getUserTicketBalance",
                   "getUserTicketTwabAt", "getUserTokenBalance",
                   "getUserDepositAllowance", "getTokenData", "getTicketData",
                   "getTicketTotalSupply", "getTicketTwabTotalSupplyAt" }

\* The child contracts an accessor awaits, in the order it awaits them.
ChildrenOf(accessor) ==
    CASE accessor = "getUserPrizePoolBalances" -> <<"token", "ticket">>
      [] accessor \in { "getUserTokenBalance", "getUserDepositAllowance",
                        "getTokenData", "getTokenContract" } -> <<"token">>
      [] OTHER -> <<"ticket">>

\* Reads the accessor issues on the child contracts once it holds them:
\* getUserPrizePoolBalances starts two balance reads and joins them with
\* Promise.all; getTokenContract/getTicketContract return the contract.
OwnReads(accessor) ==
    CASE accessor = "getUserPrizePoolBalances" -> 2
      [] accessor \in { "getTokenContract", "getTicketContract" } -> 0
      [] OTHER -> 1

\* Addresses a caller may pass; validateAddress accepts the well-formed one.
UserAddresses == { "0xUser", "malformed" }
validateAddress(usersAddress) == usersAddress = "0xUser"

\* validateSignerOrProviderNetwork: the provider's network is the pool's.
validateSignerOrProviderNetwork(signerOrProvider, chainId) == signerOrProvider = chainId

\* What the prize pool contract answers to getToken() / getTicket().
OnChainAddress(child) == IF child = "token" THEN "0xAAA" ELSE "0xBBB"

IdleCall ==
    [ pc |-> "idle", accessor |-> "none", usersAddress |-> "none", idx |-> 0,
      tokenContract |-> NoContract, ticketContract |-> NoContract,
      reads |-> 0, error |-> "none" ]

Running(call) == call.pc \notin { "idle", "done", "failed" }

Child(call) == ChildrenOf(call.accessor)[call.idx]

\* A call that is over is kept as its outcome only: the value it returned
\* (a contract for getTokenContract/getTicketContract) or the error it
\* rejected with; its locals are gone.
Returned(call) ==
    [IdleCall EXCEPT !.pc = "done",
                     !.tokenContract = IF call.accessor = "getTokenContract"
                                         THEN call.tokenContract ELSE NoContract,
                     !.ticketContract = IF call.accessor = "getTicketContract"
                                          THEN call.ticketContract ELSE NoContract]

Rejected(call, error) == [IdleCall EXCEPT !.pc = "failed", !.error = error]

\* The call resumes from `await this.get<Child>Contract()` holding `contract`:
\* it goes on to its next child, to its own reads, or returns.
Resume(call, child, contract) ==
    LET held == IF child = "token" THEN [call EXCEPT !.tokenContract = contract]
                ELSE [call EXCEPT !.ticketContract = contract]
    IN  IF call.idx < Len(ChildrenOf(call.accessor))
          THEN [held EXCEPT !.pc = "resolve", !.idx = call.idx + 1]
          ELSE IF OwnReads(call.accessor) = 0 THEN Returned(held)
          ELSE [held EXCEPT !.pc = "read"]

\* --------------------------------------------- PrizePool: the two caches
\* A getTokenContract without its first line.
TokenNeverCached(pool) == FALSE

\* getTokenContract, first line: `if (this.tokenContract !== undefined)`.
TokenCacheHit(pool) == pool.tokenContract # NoContract

\* A getTokenContract that assigns this.tokenContract and leaves
\* this.tokenMetadata as it was.
SetTokenContractOnly(pool, tokenMetadata, tokenContract) ==
    [pool EXCEPT !.tokenContract = tokenContract]

\* getTokenContract, last lines: this.tokenMetadata = ...; this.tokenContract = ...
SetToken(pool, tokenMetadata, tokenContract) ==
    [pool EXCEPT !.tokenMetadata = tokenMetadata, !.tokenContract = tokenContract]

\* A getTokenContract that assigns the fields before the address is known.
TokenStoredOnFailure(pool) ==
    [pool EXCEPT !.tokenMetadata = createContractMetadata(pool.chainId, "undefined", TokenType),
                 !.tokenContract = NewContract(-1, "undefined")]

\* getTokenContract when `await getAddress()` throws: the rest of the body
\* is skipped, nothing is assigned.
TokenReadFailed(pool) == pool

\* getAndSetEthersContract('ticket', ...): the same steps on the ticket fields.
TicketCacheHit(pool) == pool.ticketContract # NoContract

SetTicket(pool, ticketMetadata, ticketContract) ==
    [pool EXCEPT !.ticketMetadata = ticketMetadata, !.ticketContract = ticketContract]

TicketReadFailed(pool) == pool

\* ------------------------------------------------- PrizePool: the steps
\* A caller invokes an accessor. Calls are numbered in the order they start.
Invoke(c, accessor, usersAddress) ==
    /\ calls[c].pc = "idle"
    /\ \A d \in 1..(c - 1) : calls[d].pc # "idle"
    /\ usersAddress = "none" <=> ~ValidatesAddress(accessor)
    /\ calls' = [calls EXCEPT ![c] =
                    [IdleCall EXCEPT !.pc = "validate", !.accessor = accessor,
                                     !.usersAddress = usersAddress, !.idx = 1]]
    /\ overlapped' = (overlapped \/ \E d \in DOMAIN calls : Running(calls[d]))
    /\ UNCHANGED <<prizePool, nextId, childReads, failedReads>>
    /\ UNCHANGED linkedVars

\* The validation lines at the head of the accessor.
Validate(c) ==
    LET call == calls[c]
    IN  /\ call.pc = "validate"
        /\ calls' = [calls EXCEPT ![c] =
             IF ValidatesAddress(call.accessor) /\ ~validateAddress(call.usersAddress)
               THEN Rejected(call, "InvalidAddress")
             ELSE IF /\ ValidatesNetwork(call.accessor)
                     /\ ~validateSignerOrProviderNetwork(prizePool.signerOrProvider, prizePool.chainId)
               THEN Rejected(call, "NetworkMismatch")
             ELSE [call EXCEPT !.pc = "resolve"]]
        /\ UNCHANGED <<prizePool, nextId, childReads, failedReads, overlapped>>
        /\ UNCHANGED linkedVars

\* getTokenContract up to its await: return the cached contract, or issue
\* prizePoolContract.functions.getToken().
GetTokenContract(c) ==
    LET call == calls[c]
    IN  /\ call.pc = "resolve"
        /\ Child(call) = "token"
        /\ IF TokenCacheHit(prizePool)
             THEN /\ calls' = [calls EXCEPT ![c] = Resume(call, "token", prizePool.tokenContract)]
                  /\ UNCHANGED childReads
             ELSE /\ calls' = [calls EXCEPT ![c] =
                                 [call EXCEPT !.pc = "awaitAddress", !.reads = call.reads + 1]]
                  /\ childReads' = [childReads EXCEPT !["token"] = childReads["token"] + 1]
        /\ UNCHANGED <<prizePool, nextId, failedReads, overlapped>>
        /\ UNCHANGED linkedVars

\* getToken() answered: build metadata and contract, assign both fields,
\* return the contract just built.
GetTokenFulfilled(c) ==
    LET call == calls[c]
        tokenAddress == OnChainAddress("token")
        tokenMetadata == createContractMetadata(prizePool.chainId, tokenAddress, TokenType)
        tokenContract == NewContract(nextId["token"], tokenMetadata.address)
    IN  /\ call.pc = "awaitAddress"
        /\ Child(call) = "token"
        /\ prizePool' = SetToken(prizePool, tokenMetadata, tokenContract)
        /\ nextId' = [nextId EXCEPT !["token"] = nextId["token"] + 1]
        /\ calls' = [calls EXCEPT ![c] = Resume(call, "token", tokenContract)]
        /\ UNCHANGED <<childReads, failedReads, overlapped>>
        /\ UNCHANGED linkedVars

\* getToken() rejected: getTokenContract rejects, and so does the accessor.
GetTokenRejected(c) ==
    LET call == calls[c]
    IN  /\ call.pc = "awaitAddress"
        /\ Child(call) = "token"
        /\ prizePool' = TokenReadFailed(prizePool)
        /\ calls' = [calls EXCEPT ![c] = Rejected(call, "ResolutionFailure")]
        /\ failedReads' = [failedReads EXCEPT !["token"] = failedReads["token"] + 1]
        /\ UNCHANGED <<nextId, childReads, overlapped>>
        /\ UNCHANGED linkedVars

\* getTicketContract: the same through getAndSetEthersContract('ticket', ...).
GetTicketContract(c) ==
    LET call == calls[c]
    IN  /\ call.pc = "resolve"
        /\ Child(call) = "ticket"
        /\ IF TicketCacheHit(prizePool)
             THEN /\ calls' = [calls EXCEPT ![c] = Resume(call, "ticket", prizePool.ticketContract)]
                  /\ UNCHANGED childReads
             ELSE /\ calls' = [calls EXCEPT ![c] =
                                 [call EXCEPT !.pc = "awaitAddress", !.reads = call.reads + 1]]
                  /\ childReads' = [childReads EXCEPT !["ticket"] = childReads["ticket"] + 1]
        /\ UNCHANGED <<prizePool, nextId, failedReads, overlapped>>
        /\ UNCHANGED linkedVars

GetTicketFulfilled(c) ==
    LET call == calls[c]
        ticketAddress == OnChainAddress("ticket")
        ticketMetadata == createContractMetadata(prizePool.chainId, ticketAddress, TicketType)
        ticketContract == NewContract(nextId["ticket"], ticketMetadata.address)
    IN  /\ call.pc = "awaitAddress"
        /\ Child(call) = "ticket"
        /\ prizePool' = SetTicket(prizePool, ticketMetadata, ticketContract)
        /\ nextId' = [nextId EXCEPT !["ticket"] = nextId["ticket"] + 1]
        /\ calls' = [calls EXCEPT ![c] = Resume(call, "ticket", ticketContract)]
        /\ UNCHANGED <<childReads, failedReads, overlapped>>
        /\ UNCHANGED linkedVars

GetTicketRejected(c) ==
    LET call == calls[c]
    IN  /\ call.pc = "awaitAddress"
        /\ Child(call) = "ticket"
        /\ prizePool' = TicketReadFailed(prizePool)
        /\ calls' = [calls EXCEPT ![c] = Rejected(call, "ResolutionFailure")]
        /\ failedReads' = [failedReads EXCEPT !["ticket"] = failedReads["ticket"] + 1]
        /\ UNCHANGED <<nextId, childReads, overlapped>>
        /\ UNCHANGED linkedVars

\* The accessor holds its contracts and issues its own read(s) on them; the
\* local contracts are not used after that.
IssueRead(c) ==
    LET call == calls[c]
    IN  /\ call.pc = "read"
        /\ calls' = [calls EXCEPT ![c] =
                        [call EXCEPT !.pc = "awaitRead",
                                     !.reads = call.reads + OwnReads(call.accessor),
                                     !.tokenContract = NoContract,
                                     !.ticketContract = NoContract]]
        /\ UNCHANGED <<prizePool, nextId, childReads, failedReads, overlapped>>
        /\ UNCHANGED linkedVars

\* The accessor's read(s) answered: it returns the decoded result.
ReadFulfilled(c) ==
    /\ calls[c].pc = "awaitRead"
    /\ calls' = [calls EXCEPT ![c] = Returned(calls[c])]
    /\ UNCHANGED <<prizePool, nextId, childReads, failedReads, overlapped>>
    /\ UNCHANGED linkedVars

\* An accessor that drops the contracts it used when its read is rejected.
ReadRejectedInvalidates(c) ==
    /\ calls[c].pc = "awaitRead"
    /\ calls' = [calls EXCEPT ![c] = Rejected(calls[c], "ResolutionFailure")]
    /\ prizePool' = [prizePool EXCEPT !.tokenMetadata = NoMetadata,
                                      !.tokenContract = NoContract,
                                      !.ticketMetadata = NoMetadata,
                                      !.ticketContract = NoContract]
    /\ UNCHANGED <<nextId, childReads, failedReads, overlapped>>
    /\ UNCHANGED linkedVars

\* One of the accessor's reads rejected (a revert, a transport error): the
\* accessor has no try/catch, the rejection goes to the caller and no field of
\* the PrizePool is assigned.
ReadRejected(c) ==
    /\ calls[c].pc = "awaitRead"
    /\ calls' = [calls EXCEPT ![c] = Rejected(calls[c], "ResolutionFailure")]
    /\ UNCHANGED <<prizePool, nextId, childReads, failedReads, overlapped>>
    /\ UNCHANGED linkedVars

\* Contract lists a PrizePool is constructed from: the prize pool alone, or the
\* prize pool extended with "children" next to its Token and Ticket contracts.
PoolInputs ==
    { << ContractMetadata(1, "0xPool", PrizePoolType, <<>>) >>,
      << ContractMetadata(1, "0xPool", PrizePoolType,
                          << ChildRef(1, "0xAAA"), ChildRef(1, "0xBBB") >>),
         ContractMetadata(1, "0xAAA", TokenType, <<>>),
         ContractMetadata(1, "0xBBB", TicketType, <<>>) >> }

\* Networks the provider handed to the constructor may be connected to.
ProviderNetworks == { 1, 2 }

LinkedIdle ==
    /\ contractList = <<>>
    /\ providers = {}
    /\ pc = "unused"
    /\ batches = <<>>
    /\ linkedPrizePool = NoLinkedPrizePool
    /\ builtPools = <<>>

InitPool ==
    /\ \E list \in PoolInputs, network \in ProviderNetworks :
          prizePool = PrizePool(list[1], network, list)
    /\ calls = [c \in 1..MaxCalls |-> IdleCall]
    /\ nextId = [child \in {"token", "ticket"} |-> 1]
    /\ childReads = [child \in {"token", "ticket"} |-> 0]
    /\ failedReads = [child \in {"token", "ticket"} |-> 0]
    /\ overlapped = FALSE
    /\ LinkedIdle

NextPool ==
    \/ \E c \in 1..MaxCalls, accessor \in Accessors, usersAddress \in UserAddresses \cup {"none"} :
          Invoke(c, accessor, usersAddress)
    \/ \E c \in 1..MaxCalls : Validate(c)
    \/ \E c \in 1..MaxCalls : GetTokenContract(c)
    \/ \E c \in 1..MaxCalls : GetTokenFulfilled(c)
    \/ \E c \in 1..MaxCalls : GetTokenRejected(c)
    \/ \E c \in 1..MaxCalls : GetTicketContract(c)
    \/ \E c \in 1..MaxCalls : GetTicketFulfilled(c)
    \/ \E c \in 1..MaxCalls : GetTicketRejected(c)
    \/ \E c \in 1..MaxCalls : IssueRead(c)
    \/ \E c \in 1..MaxCalls : ReadFulfilled(c)
    \/ \E c \in 1..MaxCalls : ReadRejected(c)

SpecPool == InitPool /\ [][NextPool]_vars

\* ------------------------------------------------------ LinkedPrizePool
\* Length of the contract list handed to initializeLinkedPrizePool.
MaxContracts == 3

ChainIds == { 1, 2 }
PrizePoolAddresses == { "0xP1", "0xP2" }
TokenAddresses == { "0xAAA", "0xCCC" }

\* Every prize pool has a ticket of its own.
TicketOf(prizePoolAddress) == IF prizePoolAddress = "0xP1" THEN "0xT1" ELSE "0xT2"

\* The contracts a flat list (no extensions) may hold.
FlatContracts ==
    { ContractMetadata(chainId, address, PrizePoolType, <<>>) :
          chainId \in ChainIds, address \in PrizePoolAddresses }
    \cup { ContractMetadata(chainId, address, TokenType, <<>>) :
          chainId \in ChainIds, address \in TokenAddresses }
    \cup { ContractMetadata(chainId, TicketOf(address), TicketType, <<>>) :
          chainId \in ChainIds, address \in PrizePoolAddresses }

\* A contract list holds an address once per chain.
RECURSIVE ContractLists(_)
ContractLists(n) ==
    IF n = 0 THEN { <<>> }
    ELSE LET shorter == ContractLists(n - 1)
         IN  shorter \cup
             { Append(list, contract) : list \in { l \in shorter : Len(l) = n - 1 },
                                        contract \in FlatContracts }

UniqueAddresses(contracts) ==
    \A i, j \in DOMAIN contracts :
        (contracts[i].chainId = contracts[j].chainId /\ contracts[i].address = contracts[j].address)
            => i = j

\* getContractsByType(contracts, type)
getContractsByType(contracts, type) ==
    SelectSeq(contracts, LAMBDA contract : contract.type = type)

\* sortContractsByChainId(contracts): the contracts of each chain id, in order.
sortContractsByChainId(contracts) ==
    [ chainId \in { contracts[i].chainId : i \in DOMAIN contracts } |->
        SelectSeq(contracts, LAMBDA contract : contract.chainId = chainId) ]

\* fetchPrizePoolAddressesByChainId up to `await batch(...)`: one batched
\* request holding token() and ticket() of every prize pool of the chain.
\* `issued` counts the calls of batch(...) made for the chain.
fetchPrizePoolAddressesByChainId(chainId, prizePoolContracts) ==
    [ status |-> "pending",
      issued |-> 1,
      request |-> { prizePoolContracts[i].address : i \in DOMAIN prizePoolContracts },
      value |-> <<>> ]

\* Results the batch of a request may return: for every prize pool of the
\* request its token and its ticket address.
BatchResults(request) ==
    { [ prizePoolAddress \in request |->
          [ token |-> tokens[prizePoolAddress], ticket |-> TicketOf(prizePoolAddress) ] ] :
      tokens \in [request -> TokenAddresses] }

\* A loop over the result that stops after its first key.
AddressesOfFirstPrizePool(result) ==
    LET first == CHOOSE prizePoolAddress \in DOMAIN result : TRUE
    IN  [ prizePoolAddress \in { first } |->
            [ token |-> result[first].token, ticket |-> result[first].ticket ] ]

\* fetchPrizePoolAddressesByChainId after the await: for every key of the
\* result, addressesByPrizePool[key] = { token, ticket } of that entry.
AddressesByPrizePool(result) ==
    [ prizePoolAddress \in DOMAIN result |->
        [ token |-> result[prizePoolAddress].token,
          ticket |-> result[prizePoolAddress].ticket ] ]

\* A join that settles as soon as one promise rejects (Promise.all).
PromiseAll(responses) ==
    IF \E chainId \in DOMAIN responses : responses[chainId].status = "rejected"
      THEN "rejected"
    ELSE IF \A chainId \in DOMAIN responses : responses[chainId].status = "fulfilled"
      THEN "settled"
    ELSE "pending"

\* A join that settles only once every promise has fulfilled.
PromiseAllFulfilled(responses) ==
    IF \A chainId \in DOMAIN responses : responses[chainId].status = "fulfilled"
      THEN "settled"
      ELSE "pending"

\* Promise.allSettled(promises): settles once every promise has settled, and
\* never rejects.
PromiseAllSettled(responses) ==
    IF \A chainId \in DOMAIN responses : responses[chainId].status # "pending"
      THEN "settled"
      ELSE "pending"

\* The forEach loops over the responses: the value of every fulfilled
\* response, keyed by its chain id.
PrizePoolAddressesByChainId(responses) ==
    [ chainId \in { id \in DOMAIN responses : responses[id].status = "fulfilled" } |->
        responses[chainId].value ]

\* extendContractWithChildren(contracts, addressesByChainId, type): a prize
\* pool whose addresses were fetched gets them as its children {token,
\* ticket}; a prize pool of a chain with no fetched addresses is left out of
\* the list; every other contract is kept as it is.
extendContractWithChildren(contracts, addressesByChainId, type) ==
    LET fetched(contract) ==
            /\ contract.chainId \in DOMAIN addressesByChainId
            /\ contract.address \in DOMAIN addressesByChainId[contract.chainId]
        kept == SelectSeq(contracts, LAMBDA contract : contract.type # type \/ fetched(contract))
    IN  [ i \in DOMAIN kept |->
            IF kept[i].type = type
              THEN LET addresses == addressesByChainId[kept[i].chainId][kept[i].address]
                   IN  [kept[i] EXCEPT !.children =
                           << ChildRef(kept[i].chainId, addresses.token),
                              ChildRef(kept[i].chainId, addresses.ticket) >>]
              ELSE kept[i] ]

\* createTokenContract(chainId, address)
createTokenContract(chainId, address) == ContractMetadata(chainId, address, TokenType, <<>>)

\* Concatenation of the children of contracts[from..], in order (flatMap).
RECURSIVE FlatChildren(_, _)
FlatChildren(contracts, from) ==
    IF from > Len(contracts) THEN <<>>
    ELSE contracts[from].children \o FlatChildren(contracts, from + 1)

\* The forEach of extendContractsWithToken over tokens[from..]: a child with
\* no contract of its address and chain id in `contracts` gets a new Token
\* contract pushed onto updatedContracts.
RECURSIVE PushMissing(_, _, _, _)
PushMissing(contracts, updatedContracts, tokens, from) ==
    IF from > Len(tokens) THEN updatedContracts
    ELSE LET token == tokens[from]
             found == \E i \in DOMAIN contracts :
                         /\ contracts[i].address = token.address
                         /\ contracts[i].chainId = token.chainId
         IN  PushMissing(contracts,
                         IF found THEN updatedContracts
                         ELSE Append(updatedContracts,
                                     createTokenContract(token.chainId, token.address)),
                         tokens, from + 1)

\* extendContractsWithToken(contracts)
extendContractsWithToken(contracts) ==
    PushMissing(contracts, contracts, FlatChildren(contracts, 1), 1)

\* sortContractsByContractTypeAndChildren(contracts, type): for every contract
\* of the type, in list order, the contract followed by the contracts its
\* children name.
sortContractsByContractTypeAndChildren(contracts, type) ==
    LET parents == getContractsByType(contracts, type)
        isChildOf(parent, contract) ==
            \E k \in DOMAIN parent.children :
                parent.children[k] = ChildRef(contract.chainId, contract.address)
    IN  [ i \in DOMAIN parents |->
            <<parents[i]>> \o
            SelectSeq(contracts, LAMBDA contract : isChildOf(parents[i], contract)) ]

\* providers[chainId]: the provider of the chain (named by the network it is
\* connected to), 0 when the map has none.
ProviderOf(providerIds, chainId) == IF chainId \in providerIds THEN chainId ELSE 0

\* The constructor of a PrizePool throws when it is handed no provider
\* (providers[chainId] undefined).
ConstructionFails(signerOrProvider) == signerOrProvider = 0

\* A createPrizePools that catches the error of a constructor and goes on.
createPrizePoolsCatches(providerIds, contracts) == FALSE

\* createPrizePools has no try/catch: an error thrown by the constructor of
\* one PrizePool leaves the map callback and createPrizePools itself.
createPrizePoolsThrows(providerIds, contracts) ==
    LET prizePoolContractLists == sortContractsByContractTypeAndChildren(contracts, PrizePoolType)
    IN  \E i \in DOMAIN prizePoolContractLists :
            LET prizePoolContract == getContractsByType(prizePoolContractLists[i], PrizePoolType)[1]
            IN  ConstructionFails(ProviderOf(providerIds, prizePoolContract.chainId))

\* A createPrizePools whose callback looks the prize pool up in the whole list.
createPrizePoolsOuterFind(providerIds, contracts) ==
    LET prizePoolContractLists == sortContractsByContractTypeAndChildren(contracts, PrizePoolType)
    IN  [ i \in DOMAIN prizePoolContractLists |->
            LET prizePoolContract == getContractsByType(contracts, PrizePoolType)[1]
            IN  PrizePool(prizePoolContract,
                          ProviderOf(providerIds, prizePoolContract.chainId),
                          prizePoolContractLists[i]) ]

\* createPrizePools(providers, contracts): one PrizePool per list, built from
\* the prize pool contract found in the list and the provider of its chain.
createPrizePools(providerIds, contracts) ==
    LET prizePoolContractLists == sortContractsByContractTypeAndChildren(contracts, PrizePoolType)
    IN  [ i \in DOMAIN prizePoolContractLists |->
            LET prizePoolContract == getContractsByType(prizePoolContractLists[i], PrizePoolType)[1]
            IN  PrizePool(prizePoolContract,
                          ProviderOf(providerIds, prizePoolContract.chainId),
                          prizePoolContractLists[i]) ]

\* new LinkedPrizePool(providers, linkedPrizePoolContractList)
LinkedPrizePool(providerIds, contracts) ==
    [ providers |-> providerIds,
      contractList |-> contracts,
      prizePools |-> createPrizePools(providerIds, contracts) ]

\* The contracts of the caller's list once initializeLinkedPrizePool has
\* assigned the extended contracts to the list object it was handed.
CallerContractsAssigned(contracts, contractsWithToken) == contractsWithToken

\* The contracts of the caller's list after `[...contracts]` and
\* `{ ...linkedPrizePoolContractList, contracts: contractsWithToken }`: the
\* tokens are pushed to a copy of the array and the extended contracts are
\* put in a new list object, the caller's own is not written.
CallerContracts(contracts, contractsWithToken) == contracts

\* An initializeLinkedPrizePool that awaits the batch of a chain before it
\* starts the batch of the next one.
IssueBatchesOneByOne ==
    /\ pc = "start"
    /\ \A chainId \in DOMAIN batches : batches[chainId].status # "pending"
    /\ LET prizePoolContracts == getContractsByType(contractList, PrizePoolType)
           prizePoolContractsByChainId == sortContractsByChainId(prizePoolContracts)
           waiting == DOMAIN prizePoolContractsByChainId \ DOMAIN batches
       IN  IF waiting = {}
             THEN /\ pc' = "awaitAllSettled"
                  /\ UNCHANGED batches
             ELSE LET next == CHOOSE chainId \in waiting : \A other \in waiting : chainId <= other
                  IN  /\ batches' = [ chainId \in DOMAIN batches \cup { next } |->
                                        IF chainId = next
                                          THEN fetchPrizePoolAddressesByChainId(
                                                   next, prizePoolContractsByChainId[next])
                                          ELSE batches[chainId] ]
                      /\ UNCHANGED pc
    /\ UNCHANGED <<contractList, providers, linkedPrizePool>>
    /\ UNCHANGED <<poolVars, builtPools>>

\* prizePools.unshift(...) in place of prizePools.push(...).
Unshift(prizePools, pool) == <<pool>> \o prizePools

\* prizePools.push(new PrizePool(...))
Push(prizePools, pool) == Append(prizePools, pool)

\* The forEach of initializePrizePools over prizePoolMetadatas[from..]: the
\* PrizePool of a metadata is pushed, unless its constructor throws: the
\* error is caught and logged, and the loop goes on.
RECURSIVE ForEachPrizePoolMetadata(_, _, _, _, _)
ForEachPrizePoolMetadata(prizePools, prizePoolMetadatas, from, providerIds, contracts) ==
    IF from > Len(prizePoolMetadatas) THEN prizePools
    ELSE LET prizePoolMetadata == prizePoolMetadatas[from]
             provider == ProviderOf(providerIds, prizePoolMetadata.chainId)
             pushed == IF ConstructionFails(provider) THEN prizePools
                       ELSE Push(prizePools, PrizePool(prizePoolMetadata, provider, contracts))
         IN  ForEachPrizePoolMetadata(pushed, prizePoolMetadatas, from + 1, providerIds, contracts)

\* initializePrizePools(contractList, providers)
initializePrizePools(contracts, providerIds) ==
    ForEachPrizePoolMetadata(<<>>, getContractsByType(contracts, PrizePoolType), 1,
                             providerIds, contracts)

\* initializeLinkedPrizePool up to its await: the prize pools are grouped by
\* chain id and the batch of every chain id is started, one after the other
\* with no await in between.
IssueBatches ==
    /\ pc = "start"
    /\ LET prizePoolContracts == getContractsByType(contractList, PrizePoolType)
           prizePoolContractsByChainId == sortContractsByChainId(prizePoolContracts)
       IN  batches' = [ chainId \in DOMAIN prizePoolContractsByChainId |->
                            fetchPrizePoolAddressesByChainId(
                                chainId, prizePoolContractsByChainId[chainId]) ]
    /\ pc' = "awaitAllSettled"
    /\ UNCHANGED <<contractList, providers, linkedPrizePool>>
    /\ UNCHANGED <<poolVars, builtPools>>

\* The batch of a chain is answered: fetchPrizePoolAddressesByChainId returns
\* { chainId, addressesByPrizePool }. Only a chain with a provider can answer.
BatchFulfilled(chainId, result) ==
    /\ batches[chainId].status = "pending"
    /\ chainId \in providers
    /\ result \in BatchResults(batches[chainId].request)
    /\ batches' = [batches EXCEPT ![chainId] =
                      [@ EXCEPT !.status = "fulfilled",
                                !.value = AddressesByPrizePool(result)]]
    /\ UNCHANGED <<contractList, providers, pc, linkedPrizePool>>
    /\ UNCHANGED <<poolVars, builtPools>>

\* A fetchPrizePoolAddressesByChainId that calls batch(...) again when the
\* call is rejected.
BatchRejectedRetried(chainId) ==
    /\ batches[chainId].status = "pending"
    /\ batches' = [batches EXCEPT ![chainId] = [@ EXCEPT !.issued = @ + 1]]
    /\ UNCHANGED <<contractList, providers, pc, linkedPrizePool>>
    /\ UNCHANGED <<poolVars, builtPools>>

\* The batch of a chain fails: fetchPrizePoolAddressesByChainId rejects, there
\* is no catch and no second call of batch(...).
BatchRejected(chainId) ==
    /\ batches[chainId].status = "pending"
    /\ batches' = [batches EXCEPT ![chainId] = [@ EXCEPT !.status = "rejected"]]
    /\ UNCHANGED <<contractList, providers, pc, linkedPrizePool>>
    /\ UNCHANGED <<poolVars, builtPools>>

\* The await on the join returns and the rest of initializeLinkedPrizePool
\* runs: the fulfilled values are collected, the contracts extended with
\* children and with token contracts, and the LinkedPrizePool constructed.
\* (A join that rejects, or a PrizePool constructor that throws, makes the
\* function throw.)
Join ==
    /\ pc = "awaitAllSettled"
    /\ PromiseAllSettled(batches) # "pending"
    /\ IF PromiseAllSettled(batches) = "rejected"
         THEN /\ pc' = "threw"
              /\ UNCHANGED <<contractList, linkedPrizePool>>
         ELSE LET prizePoolAddressesByChainId == PrizePoolAddressesByChainId(batches)
                  contractsWithChildren ==
                      extendContractWithChildren(contractList, prizePoolAddressesByChainId,
                                                 PrizePoolType)
                  contractsWithToken == extendContractsWithToken(contractsWithChildren)
              IN  IF createPrizePoolsThrows(providers, contractsWithToken)
                    THEN /\ pc' = "threw"
                         /\ UNCHANGED <<contractList, linkedPrizePool>>
                    ELSE /\ linkedPrizePool' = LinkedPrizePool(providers, contractsWithToken)
                         /\ contractList' = CallerContracts(contractList, contractsWithToken)
                         /\ pc' = "done"
    /\ UNCHANGED <<providers, batches>>
    /\ UNCHANGED <<poolVars, builtPools>>

PoolIdle ==
    /\ prizePool = <<>>
    /\ calls = <<>>
    /\ nextId = <<>>
    /\ childReads = <<>>
    /\ failedReads = <<>>
    /\ overlapped = FALSE

InitLinked ==
    /\ contractList \in { list \in ContractLists(MaxContracts) : UniqueAddresses(list) }
    /\ providers \in SUBSET ChainIds
    /\ pc = "start"
    /\ batches = <<>>
    /\ linkedPrizePool = NoLinkedPrizePool
    /\ builtPools = <<>>
    /\ PoolIdle

NextLinked ==
    \/ IssueBatches
    \/ \E chainId \in DOMAIN batches, result \in UNION { BatchResults(request) : request \in SUBSET PrizePoolAddresses } :
          BatchFulfilled(chainId, result)
    \/ \E chainId \in DOMAIN batches : BatchRejected(chainId)
    \/ Join

SpecLinked == InitLinked /\ [][NextLinked]_vars

\* The batch of a chain settles, one way or the other.
BatchSettles(chainId) ==
    /\ chainId \in DOMAIN batches
    /\ \/ \E result \in BatchResults(batches[chainId].request) : BatchFulfilled(chainId, result)
       \/ BatchRejected(chainId)

\* `await Promise.allSettled(...)` returns: the function leaves its await once
\* the join has settled. (The step of Join, seen on the program counter.)
JoinResumes ==
    /\ pc = "awaitAllSettled"
    /\ PromiseAllSettled(batches) # "pending"
    /\ pc' \in { "done", "threw" }

\* initializeLinkedPrizePool under a scheduler that runs what can run: the
\* synchronous head of the function runs once it is called, the continuation
\* of the await runs once the join has settled, and every batch that was
\* issued is answered or fails (the chain client has a timeout of its own).
SpecLinkedFair ==
    /\ SpecLinked
    /\ WF_vars(IssueBatches)
    /\ WF_pc(JoinResumes)
    /\ \A chainId \in ChainIds : WF_vars(BatchSettles(chainId))

\* ------------------------------------------- building the prize pools
\* The contracts a list handed to initializePrizePools or to the LinkedPrizePool
\* constructor may hold: prize pools, with or without "children", and the token
\* and ticket contracts their children name.
BuildContracts ==
    { ContractMetadata(chainId, address, PrizePoolType, children) :
          chainId \in ChainIds, address \in PrizePoolAddresses,
          children \in { <<>> } }
    \cup { ContractMetadata(chainId, address, PrizePoolType,
                            << ChildRef(chainId, "0xAAA"), ChildRef(chainId, TicketOf(address)) >>) :
          chainId \in ChainIds, address \in PrizePoolAddresses }
    \cup { ContractMetadata(chainId, "0xAAA", TokenType, <<>>) : chainId \in ChainIds }
    \cup { ContractMetadata(chainId, TicketOf("0xP1"), TicketType, <<>>) : chainId \in ChainIds }

RECURSIVE BuildLists(_)
BuildLists(n) ==
    IF n = 0 THEN { <<>> }
    ELSE LET shorter == BuildLists(n - 1)
         IN  shorter \cup
             { Append(list, contract) : list \in { l \in shorter : Len(l) = n - 1 },
                                        contract \in BuildContracts }

\* initializePrizePools(contractList, providers) runs (it has no await).
InitializePrizePools ==
    /\ pc = "start"
    /\ builtPools' = initializePrizePools(contractList, providers)
    /\ pc' = "initialized"
    /\ UNCHANGED <<contractList, providers, batches, linkedPrizePool>>
    /\ UNCHANGED poolVars

\* new LinkedPrizePool(providers, linkedPrizePoolContractList) runs: the
\* constructor calls createPrizePools and throws when that throws.
NewLinkedPrizePool ==
    /\ pc = "start"
    /\ IF createPrizePoolsThrows(providers, contractList)
         THEN /\ pc' = "threw"
              /\ UNCHANGED linkedPrizePool
         ELSE /\ linkedPrizePool' = LinkedPrizePool(providers, contractList)
              /\ pc' = "constructed"
    /\ UNCHANGED <<contractList, providers, batches, builtPools>>
    /\ UNCHANGED poolVars

InitBuild ==
    /\ contractList \in { list \in BuildLists(MaxContracts) : UniqueAddresses(list) }
    /\ providers \in SUBSET ChainIds
    /\ pc = "start"
    /\ batches = <<>>
    /\ linkedPrizePool = NoLinkedPrizePool
    /\ builtPools = <<>>
    /\ PoolIdle

NextBuild ==
    \/ InitializePrizePools
    \/ NewLinkedPrizePool

SpecBuild == InitBuild /\ [][NextBuild]_vars

\* ------------------------------------------------ claims on a PrizePool
\* C1 (as claimed): at most one getToken() read is in flight on a PrizePool
\* at any time, however many calls were started before the first one
\* resolved the token.
C1_OneResolutionInFlight ==
    Cardinality({ c \in DOMAIN calls :
                    calls[c].pc = "awaitAddress" /\ Child(calls[c]) = "token" }) <= 1

\* C2 (as claimed): all calls that obtained the token contract hold one and
\* the same object, the one kept in prizePool.tokenContract.
C2_SameContractReturned ==
    \A c \in DOMAIN calls :
        calls[c].tokenContract # NoContract =>
            /\ calls[c].tokenContract = prizePool.tokenContract
            /\ \A d \in DOMAIN calls :
                  calls[d].tokenContract # NoContract =>
                      calls[d].tokenContract = calls[c].tokenContract

\* C3 (as claimed): once prizePool.tokenContract is set, no step changes it.
C3_CacheWrittenOnce ==
    [][prizePool.tokenContract # NoContract =>
          prizePool'.tokenContract = prizePool.tokenContract]_vars

\* C4 (as claimed): when every call starts after the previous one completed,
\* at most one getToken() and one getTicket() read are ever issued.
C4_AtMostOneReadInSequence ==
    ~overlapped => \A child \in {"token", "ticket"} : childReads[child] <= 1

\* C4 (amended): when every call starts after the previous one completed, a
\* child read is issued only while that child is not cached, so the reads
\* issued for a child are at most one more than the reads that failed: after
\* the first read that succeeds no call issues another.
C4_OneReadPerFailurePlusOne ==
    ~overlapped =>
        /\ \A child \in {"token", "ticket"} :
              childReads[child] <= failedReads[child] + 1
        /\ \A c \in DOMAIN calls :
              calls[c].pc = "awaitAddress" =>
                  IF Child(calls[c]) = "token"
                    THEN prizePool.tokenContract = NoContract
                    ELSE prizePool.ticketContract = NoContract

\* C4 witness: two getTokenContract calls in sequence; the first read the
\* token address, the second was served from the cache.
C4_Witness ==
    /\ ~overlapped
    /\ \A c \in {1, 2} :
          /\ calls[c].pc = "done"
          /\ calls[c].tokenContract = prizePool.tokenContract
          /\ calls[c].tokenContract # NoContract
    /\ childReads["token"] = 1
    /\ failedReads["token"] = 0

\* C8 (as claimed): a PrizePool constructed from a prize pool with declared
\* children that match Token/Ticket contracts of the list has both caches
\* set, and no getToken()/getTicket() read is ever issued on it.
C8_DeclaredChildrenPreSeeded ==
    LET meta == prizePool.prizePoolMetadata
        list == prizePool.contractMetadataList
        declared ==
            /\ Len(meta.children) = 2
            /\ \E i \in DOMAIN list :
                  /\ list[i].type = TokenType
                  /\ ChildRef(list[i].chainId, list[i].address) = meta.children[1]
            /\ \E i \in DOMAIN list :
                  /\ list[i].type = TicketType
                  /\ ChildRef(list[i].chainId, list[i].address) = meta.children[2]
    IN  declared =>
            /\ prizePool.tokenContract # NoContract
            /\ prizePool.ticketContract # NoContract
            /\ childReads["token"] = 0
            /\ childReads["ticket"] = 0

\* C9 (as claimed): an accessor given a malformed address, or running on a
\* provider of another network than the pool's, fails with the validation
\* error and has issued no read.
C9_InvalidCallsReadNothing ==
    \A c \in DOMAIN calls :
        LET call == calls[c]
            invalid ==
                \/ ValidatesAddress(call.accessor) /\ ~validateAddress(call.usersAddress)
                \/ ~validateSignerOrProviderNetwork(prizePool.signerOrProvider, prizePool.chainId)
        IN  ( /\ call.pc # "idle"
              /\ call.accessor \notin {"getTokenContract", "getTicketContract"}
              /\ invalid )
            => /\ call.reads = 0
               /\ call.pc # "done"
               /\ call.pc = "failed" => call.error \in {"InvalidAddress", "NetworkMismatch"}

\* C10: a rejected getToken()/getTicket() read fails the call that issued it
\* and nothing else: the PrizePool's fields and the other calls are as before
\* (a child no read has succeeded for is still undefined); a call that then
\* finds the child undefined issues the read again, and when that read is
\* answered the child is cached and handed to the call.
C10_FailedReadLeavesCacheEmpty ==
    /\ [](\A child \in {"token", "ticket"} :
            LET inFlight == Cardinality({ c \in DOMAIN calls :
                                calls[c].pc = "awaitAddress" /\ Child(calls[c]) = child })
                cached == IF child = "token" THEN prizePool.tokenContract
                          ELSE prizePool.ticketContract
            IN  childReads[child] = failedReads[child] + inFlight => cached = NoContract)
    /\ [][\A c \in DOMAIN calls :
            LET child == Child(calls[c])
                cached == IF child = "token" THEN prizePool.tokenContract
                          ELSE prizePool.ticketContract
                cachedAfter == IF child = "token" THEN prizePool'.tokenContract
                               ELSE prizePool'.ticketContract
                heldAfter == IF child = "token" THEN calls'[c].tokenContract
                             ELSE calls'[c].ticketContract
            IN  /\ (calls[c].pc = "awaitAddress" /\ calls'[c].pc = "failed") =>
                      /\ prizePool' = prizePool
                      /\ calls'[c].error = "ResolutionFailure"
                      /\ \A d \in DOMAIN calls \ {c} : calls'[d] = calls[d]
                /\ (calls[c].pc = "resolve" /\ cached = NoContract /\ calls'[c] # calls[c]) =>
                      /\ calls'[c].pc = "awaitAddress"
                      /\ childReads'[child] = childReads[child] + 1
                /\ (calls[c].pc = "awaitAddress" /\ calls'[c].pc \notin {"awaitAddress", "failed"}) =>
                      /\ cachedAfter # NoContract
                      /\ heldAfter = cachedAfter
         ]_vars

\* C10 witness: the first call failed on its getToken() read, and a later
\* call read the token again, cached it and returned.
C10_Witness ==
    /\ ~overlapped
    /\ calls[1].pc = "failed" /\ calls[1].error = "ResolutionFailure"
    /\ failedReads["token"] = 1
    /\ childReads["token"] = 2
    /\ calls[2].pc = "done"
    /\ calls[2].tokenContract # NoContract
    /\ calls[2].tokenContract = prizePool.tokenContract

C6_JoinWaitsForAll ==
    pc \in {"done", "threw"} =>
        \A chainId \in DOMAIN batches : batches[chainId].status # "pending"

\* C6 witness: a batch has been rejected while another is still pending, and
\* initializeLinkedPrizePool is still waiting.
C6_Witness ==
    /\ pc = "awaitAllSettled"
    /\ \E chainId \in DOMAIN batches : batches[chainId].status = "rejected"
    /\ \E chainId \in DOMAIN batches : batches[chainId].status = "pending"

\* C7 (as claimed): the contract list of the returned LinkedPrizePool holds no
\* two contracts with the same chain id and address.
C7_NoDuplicateContracts ==
    pc = "done" => UniqueAddresses(linkedPrizePool.contractList)

\* The cached contract of a child of the PrizePool.
CachedContract(pool, child) ==
    IF child = "token" THEN pool.tokenContract ELSE pool.ticketContract

\* C11: when the own read of an accessor is rejected after its child
\* contracts were resolved, the accessor rejects with that failure and the
\* PrizePool is left as it was, every child contract the accessor used still
\* cached.
C11_FailedReadKeepsChildCache ==
    [][\A c \in DOMAIN calls :
          (calls[c].pc = "awaitRead" /\ calls'[c].pc = "failed") =>
              /\ calls'[c].error = "ResolutionFailure"
              /\ prizePool' = prizePool
              /\ \A i \in DOMAIN ChildrenOf(calls[c].accessor) :
                    CachedContract(prizePool', ChildrenOf(calls[c].accessor)[i]) # NoContract]_vars

\* C11 witness: the only call made resolved the ticket contract with one
\* getTicket() read that succeeded, then failed on its own read; the ticket
\* contract is still cached.
C11_Witness ==
    /\ calls[1].pc = "failed" /\ calls[1].error = "ResolutionFailure"
    /\ calls[2].pc = "idle"
    /\ childReads["ticket"] = 1
    /\ failedReads["ticket"] = 0 /\ failedReads["token"] = 0
    /\ prizePool.ticketContract # NoContract

\* C20: tokenContract is set exactly when tokenMetadata is, and when set both
\* hold the same address, on the chain of the PrizePool, in every state that
\* concurrent accessor calls can reach.
C20_TokenFieldsAgree ==
    /\ prizePool.tokenContract = NoContract <=> prizePool.tokenMetadata = NoMetadata
    /\ prizePool.tokenContract # NoContract =>
          /\ prizePool.tokenMetadata.address = prizePool.tokenContract.address
          /\ prizePool.tokenMetadata.chainId = prizePool.chainId
          /\ prizePool.tokenMetadata.type = TokenType

\* C20 witness: two overlapping calls each resolved the token and each
\* assigned the two fields, the second over the first.
C20_Witness ==
    /\ overlapped
    /\ nextId["token"] = 3
    /\ prizePool.tokenContract # NoContract
    /\ prizePool.tokenMetadata # NoMetadata

\* ------------------------------------- claims on initializeLinkedPrizePool (2)
\* Chain ids that have at least one prize pool in the list:
\* Object.keys(prizePoolContractsByChainId).
PrizePoolChainIds(contracts) ==
    { contracts[i].chainId : i \in { j \in DOMAIN contracts : contracts[j].type = PrizePoolType } }

\* Prize pools of a chain that have children in a list.
PrizePoolsWithChildren(contracts, chainId) ==
    { contracts[i].address :
        i \in { j \in DOMAIN contracts : /\ contracts[j].type = PrizePoolType
                                          /\ contracts[j].chainId = chainId
                                          /\ contracts[j].children # <<>> } }

C15_NoContractForTicketAddress ==
    pc = "done" =>
        \A i \in DOMAIN linkedPrizePool.contractList :
            LET contract == linkedPrizePool.contractList[i]
                atTicketAddress ==
                    \E chainId \in DOMAIN batches :
                        /\ batches[chainId].status = "fulfilled"
                        /\ contract.chainId = chainId
                        /\ \E prizePoolAddress \in DOMAIN batches[chainId].value :
                              contract.address = batches[chainId].value[prizePoolAddress].ticket
            IN  atTicketAddress => \E j \in DOMAIN contractList : contractList[j] = contract

\* C16: once the batches are started there is exactly one batch per chain id
\* that has a prize pool in the list and none for any other chain id, batch(...)
\* was called once for it, and a batch that has settled (fulfilled or rejected)
\* is never started again nor changed.
C16_OneBatchPerChain ==
    /\ [](pc # "start" =>
            /\ DOMAIN batches = PrizePoolChainIds(contractList)
            /\ \A chainId \in DOMAIN batches : batches[chainId].issued = 1)
    /\ [][\A chainId \in DOMAIN batches :
             /\ batches'[chainId].issued = batches[chainId].issued
             /\ batches'[chainId].request = batches[chainId].request
             /\ batches[chainId].status # "pending" => batches'[chainId] = batches[chainId]]_vars

\* C16 witness: the list holds a prize pool on chain 1 and only other contracts
\* on chain 2; the one batch, of chain 1, was rejected and
\* initializeLinkedPrizePool returned.
C16_Witness ==
    /\ pc = "done"
    /\ DOMAIN batches = { 1 }
    /\ batches[1].status = "rejected"
    /\ batches[1].issued = 1
    /\ \E i \in DOMAIN contractList : contractList[i].chainId = 2

\* C17: in every state where a batch has settled, the batch of every chain id
\* with a prize pool has already been started: no batch is started after (or
\* waits for) the settlement of another.
C17_AllIssuedBeforeAnySettles ==
    (\E chainId \in DOMAIN batches : batches[chainId].status # "pending") =>
        DOMAIN batches = PrizePoolChainIds(contractList)

\* C17 witness: the batches of two chains are started; one is fulfilled while
\* the other is still pending.
C17_Witness ==
    /\ pc = "awaitAllSettled"
    /\ DOMAIN batches = { 1, 2 }
    /\ \E chainId \in DOMAIN batches : batches[chainId].status = "fulfilled"
    /\ \E chainId \in DOMAIN batches : batches[chainId].status = "pending"

\* C19: no step of initializeLinkedPrizePool changes the contract list the
\* caller handed in (length, order and contents).
C19_CallerListUnchanged ==
    [][contractList' = contractList]_vars

\* C19 witness: the LinkedPrizePool was returned with a list that differs
\* from the caller's (children and token contracts were added to the copy).
C19_Witness ==
    /\ pc = "done"
    /\ Len(linkedPrizePool.contractList) > Len(contractList)
    /\ \E i \in DOMAIN linkedPrizePool.contractList :
          linkedPrizePool.contractList[i].children # <<>>
    /\ \A i \in DOMAIN contractList : contractList[i].children = <<>>

\* ------------------------------------- claims on building the prize pools
\* The PrizePools a build returned.
Built ==
    IF pc = "initialized" THEN builtPools ELSE linkedPrizePool.prizePools

\* The prize pool contracts of the list whose chain has a provider, in list
\* order.
PrizePoolsWithProvider ==
    SelectSeq(getContractsByType(contractList, PrizePoolType),
              LAMBDA contract : contract.chainId \in providers)

\* C12 (as claimed): a build (initializePrizePools, or createPrizePools in the
\* LinkedPrizePool constructor) does not throw, and returns a PrizePool for
\* exactly the prize pool contracts whose chain has a provider: a prize pool of
\* a chain with no provider is skipped and nothing else is.
C12_MissingProviderSkipsOnePool ==
    pc \in { "initialized", "constructed", "threw" } =>
        /\ pc # "threw"
        /\ Len(Built) = Len(PrizePoolsWithProvider)
        /\ \A h \in DOMAIN Built :
              /\ Built[h].chainId = PrizePoolsWithProvider[h].chainId
              /\ Built[h].address = PrizePoolsWithProvider[h].address

PositionOf(pool) ==
    CHOOSE i \in DOMAIN contractList :
        /\ contractList[i].chainId = pool.chainId
        /\ contractList[i].address = pool.address

\* C18: the PrizePools a build returns are in the order their prize pool
\* contracts have in the list handed in, whatever was skipped in between.
C18_PoolsInListOrder ==
    pc \in { "initialized", "constructed" } =>
        \A g, h \in DOMAIN Built :
            g < h => PositionOf(Built[g]) < PositionOf(Built[h])

\* C18 witness: initializePrizePools was handed three prize pools, the second
\* one on a chain with no provider, and returned the first and the third.
C18_Witness ==
    /\ pc = "initialized"
    /\ Len(contractList) = 3
    /\ \A i \in DOMAIN contractList : contractList[i].type = PrizePoolType
    /\ contractList[2].chainId \notin providers
    /\ Len(builtPools) = 2
    /\ builtPools[1].address = contractList[1].address
    /\ builtPools[2].address = contractList[3].address

====
